---- MODULE Spec2Model ----
(***************************************************************************)
(* MindSpeak recording flow: the Recording page (the session controller),  *)
(* the AudioRecorder it owns, and the browser callbacks they react to      *)
(* (getUserMedia completion, MediaRecorder dataavailable/stop events, the  *)
(* setInterval duration tick, the upload response), and the               *)
(* AudioVisualizer the page renders with its stream and recording flag.    *)
(*                                                                         *)
(* Every handler runs to its next await as one atomic step (one event-loop *)
(* task plus its microtasks).  Times are in milliseconds.  Date.now() is   *)
(* only ever read as Date.now() - this.startTime, so the model keeps that  *)
(* difference (sinceStart) instead of the two absolute readings.           *)
(***************************************************************************)
EXTENDS Integers, Sequences, FiniteSets, TLC

\* ---- program constants
MAX_DURATION == 120
MIN_DURATION == 5
TICK_MS == 100

\* ---- bounds of the model
MaxStarts == 2
MaxChunks == 2
Near == 1

Ids == 1..MaxStarts

\* the readings of Date.now() - this.startTime the model samples: up to Near ticks
\* before and Near + 1 ticks after each value the code compares a duration with
\* (0, 5 s, 120 s)
TimePoints ==
  {T + k * TICK_MS : T \in {0, MIN_DURATION * 1000, MAX_DURATION * 1000},
                     k \in (0 - Near)..(Near + 1)} \cap Nat
EntryIds == {7, 42}

\* the preference list of getSupportedMimeType and its fallback
MIME_TYPES ==
  <<"audio/webm;codecs=opus", "audio/webm", "audio/ogg;codecs=opus", "audio/mp4">>
MIME_DEFAULT == "audio/webm"

\* the encodings a runtime may report as supported: those of the list and two
\* the recorder never asks for
KnownTypes ==
  {MIME_TYPES[k] : k \in 1..Len(MIME_TYPES)} \cup {"audio/wav", "audio/aac"}

None == <<>>
Some(x) == <<x>>
Val(o) == o[1]

ERR_NONE == ""
ERR_MIC == "Failed to access microphone. Please check your permissions."
ERR_SHORT == "Recording too short. Please record at least 5 seconds."
ERR_UPLOAD == "Failed to upload recording. Please try again."

NoUpload == [st |-> "none", duration |-> 0, blob |-> <<>>, by |-> "none", entry |-> 0]

VARIABLES
  \* Recording page (React state and refs)
  status, duration, error, stream, timerRef, mounted, route, entryId,
  \* AudioRecorder fields
  mediaRecorder, audioChunks, recStream, sinceStart,
  \* the encodings MediaRecorder.isTypeSupported accepts, and the mimeType
  \* startRecording last chose
  supported, mimeType,
  \* browser objects and pending callbacks
  nStarts, acq, mrState, onstop, stopEvent, nChunks, tracks, timers, upload,
  \* AudioVisualizer: dependencies of its last effect run, its source node, the
  \* pending animation frames, animationRef, what the canvas shows
  vizDeps, source, rafPending, rafStale, animationRef, canvas,
  \* history
  releases, uploadCalls, settled, userActed, unmountedIn, disconnects, leaked

vars == <<status, duration, error, stream, timerRef, mounted, route, entryId,
          mediaRecorder, audioChunks, recStream, sinceStart, supported, mimeType,
          nStarts, acq, mrState, onstop, stopEvent, nChunks, tracks, timers, upload,
          vizDeps, source, rafPending, rafStale, animationRef, canvas,
          releases, uploadCalls, settled, userActed, unmountedIn, disconnects, leaked>>

St ==
  [status |-> status, duration |-> duration, error |-> error, stream |-> stream,
   timerRef |-> timerRef, mounted |-> mounted, route |-> route, entryId |-> entryId,
   mediaRecorder |-> mediaRecorder, audioChunks |-> audioChunks,
   recStream |-> recStream, sinceStart |-> sinceStart,
   supported |-> supported, mimeType |-> mimeType,
   nStarts |-> nStarts, acq |-> acq, mrState |-> mrState, onstop |-> onstop,
   stopEvent |-> stopEvent, nChunks |-> nChunks, tracks |-> tracks,
   timers |-> timers, upload |-> upload,
   releases |-> releases, uploadCalls |-> uploadCalls, settled |-> settled,
   userActed |-> userActed, unmountedIn |-> unmountedIn,
   vizDeps |-> vizDeps, source |-> source, rafPending |-> rafPending,
   rafStale |-> rafStale, animationRef |-> animationRef, canvas |-> canvas,
   disconnects |-> disconnects, leaked |-> leaked]

Becomes(n) ==
  /\ status' = n.status /\ duration' = n.duration /\ error' = n.error
  /\ stream' = n.stream /\ timerRef' = n.timerRef /\ mounted' = n.mounted
  /\ route' = n.route /\ entryId' = n.entryId
  /\ mediaRecorder' = n.mediaRecorder /\ audioChunks' = n.audioChunks
  /\ recStream' = n.recStream /\ sinceStart' = n.sinceStart
  /\ supported' = n.supported /\ mimeType' = n.mimeType
  /\ nStarts' = n.nStarts /\ acq' = n.acq /\ mrState' = n.mrState
  /\ onstop' = n.onstop /\ stopEvent' = n.stopEvent /\ nChunks' = n.nChunks
  /\ tracks' = n.tracks /\ timers' = n.timers /\ upload' = n.upload
  /\ releases' = n.releases /\ uploadCalls' = n.uploadCalls /\ settled' = n.settled
  /\ userActed' = n.userActed /\ unmountedIn' = n.unmountedIn
  /\ vizDeps' = n.vizDeps /\ source' = n.source /\ rafPending' = n.rafPending
  /\ rafStale' = n.rafStale /\ animationRef' = n.animationRef /\ canvas' = n.canvas
  /\ disconnects' = n.disconnects /\ leaked' = n.leaked

InitRec ==
  /\ status = "idle" /\ duration = 0 /\ error = ERR_NONE /\ stream = None
  /\ timerRef = None /\ mounted = TRUE /\ route = "record" /\ entryId = None
  /\ mediaRecorder = None /\ audioChunks = <<>> /\ recStream = None
  /\ sinceStart = None
  /\ nStarts = 0
  /\ acq = [i \in Ids |-> "none"]
  /\ mrState = [i \in Ids |-> "none"]
  /\ onstop = [i \in Ids |-> "unset"]
  /\ stopEvent = [i \in Ids |-> FALSE]
  /\ nChunks = 0
  /\ tracks = [i \in Ids |-> "none"]
  /\ timers = [i \in Ids |-> None]
  /\ upload = [i \in Ids |-> NoUpload]
  /\ releases = [i \in Ids |-> 0]
  /\ uploadCalls = 0
  /\ settled = "none"
  /\ userActed = FALSE
  /\ unmountedIn = "none"
  /\ vizDeps = <<None, FALSE>> /\ source = "none"
  /\ rafPending = FALSE /\ rafStale = FALSE /\ animationRef = FALSE
  /\ canvas = "blank"
  /\ disconnects = 0 /\ leaked = 0
  /\ mimeType = None

\* the page in a browser whose MediaRecorder supports the webm and mp4 encodings
Init ==
  /\ InitRec
  /\ supported = {"audio/webm;codecs=opus", "audio/webm", "audio/mp4"}

\* ---- React state setters: an update of an unmounted component is dropped
setStatus(s, v) == IF s.mounted THEN [s EXCEPT !.status = v] ELSE s
setDuration(s, v) == IF s.mounted THEN [s EXCEPT !.duration = v] ELSE s
setError(s, v) == IF s.mounted THEN [s EXCEPT !.error = v] ELSE s
setStream(s, v) == IF s.mounted THEN [s EXCEPT !.stream = v] ELSE s

\* ======================= AudioRecorder =======================

\* mutant of Rec_cleanup: the tracks are stopped but this.stream is kept
Rec_cleanup_KeepsStream(s) ==
  LET s1 == IF s.recStream # None
            THEN [s EXCEPT !.tracks[Val(s.recStream)] = "stopped",
                           !.releases[Val(s.recStream)] = @ + 1]
            ELSE s
  IN [s1 EXCEPT !.mediaRecorder = None, !.audioChunks = <<>>, !.sinceStart = None]

\* cleanup(): stop the tracks of this.stream, forget recorder, chunks, start time
Rec_cleanup(s) ==
  LET s1 == IF s.recStream # None
            THEN [s EXCEPT !.tracks[Val(s.recStream)] = "stopped",
                           !.releases[Val(s.recStream)] = @ + 1,
                           !.recStream = None]
            ELSE s
  IN [s1 EXCEPT !.mediaRecorder = None, !.audioChunks = <<>>, !.sinceStart = None]

\* mutant of getSupportedMimeType: the list is searched from its end
RECURSIVE getSupportedMimeType_Last(_, _)
getSupportedMimeType_Last(S, k) ==
  IF Len(MIME_TYPES) + 1 - k < 1 THEN MIME_DEFAULT
  ELSE IF MIME_TYPES[Len(MIME_TYPES) + 1 - k] \in S
       THEN MIME_TYPES[Len(MIME_TYPES) + 1 - k]
       ELSE getSupportedMimeType_Last(S, k + 1)

\* getSupportedMimeType(): the loop from entry k of the list on, where S is the
\* set of types MediaRecorder.isTypeSupported accepts
RECURSIVE getSupportedMimeType(_, _)
getSupportedMimeType(S, k) ==
  IF k > Len(MIME_TYPES) THEN MIME_DEFAULT
  ELSE IF MIME_TYPES[k] \in S THEN MIME_TYPES[k]
       ELSE getSupportedMimeType(S, k + 1)

\* mutant of Rec_getCurrentDuration: the start time is never consulted
Rec_getCurrentDuration_Zero(s) == 0

\* getCurrentDuration(), in ms: 0 when startTime is unset
Rec_getCurrentDuration(s) == IF s.sinceStart = None THEN 0 ELSE Val(s.sinceStart)

\* isRecording(): this.mediaRecorder?.state === 'recording'
Rec_isRecording(s) ==
  /\ s.mediaRecorder # None
  /\ s.mrState[Val(s.mediaRecorder)] = "recording"

\* getStream()
Rec_getStream(s) == s.recStream

\* mutant of Rec_stopRejects: a recorder that was already stopped is not refused
Rec_stopRejects_OnlyNull(s) == s.mediaRecorder = None

\* stopRecording() rejects with 'No active recording'
Rec_stopRejects(s) ==
  \/ s.mediaRecorder = None
  \/ s.mrState[Val(s.mediaRecorder)] = "inactive"

\* stopRecording(), up to the point where the promise is pending: install onstop
\* (by = who awaits it) and call MediaRecorder.stop(), which makes the recorder
\* inactive at once and queues its stop event.
Rec_stopRecording(s, by) ==
  IF Rec_stopRejects(s)
  THEN [s EXCEPT !.settled = "rejected"]
  ELSE LET r == Val(s.mediaRecorder)
       IN [s EXCEPT !.onstop[r] = by, !.mrState[r] = "inactive",
                    !.stopEvent[r] = TRUE]

\* mutant of Rec_startRecording: the catch block rethrows without cleanup()
Rec_startRecording_NoCleanup(s, i, outcome) ==
  LET opened == [s EXCEPT !.recStream = Some(i), !.tracks[i] = "live",
                          !.settled = "none",
                          !.mimeType = Some(getSupportedMimeType(s.supported, 1))]
      built(st) == [opened EXCEPT !.mediaRecorder = Some(i), !.mrState[i] = st,
                                  !.audioChunks = <<>>, !.sinceStart = Some(0)]
  IN CASE outcome = "denied" -> s
       [] outcome = "ctorFails" -> opened
       [] outcome = "startFails" -> built("inactive")
       [] OTHER -> built("recording")

\* startRecording() from the moment getUserMedia settles.  outcome:
\*   "denied"      getUserMedia rejected
\*   "ctorFails"   new MediaRecorder(...) threw after the stream was assigned
\*   "startFails"  mediaRecorder.start(100) threw
\*   "ok"
Rec_startRecording(s, i, outcome) ==
  LET opened == [s EXCEPT !.recStream = Some(i), !.tracks[i] = "live",
                          !.settled = "none",
                          !.mimeType = Some(getSupportedMimeType(s.supported, 1))]
      built(st) == [opened EXCEPT !.mediaRecorder = Some(i), !.mrState[i] = st,
                                  !.audioChunks = <<>>, !.sinceStart = Some(0)]
  IN CASE outcome = "denied" -> Rec_cleanup(s)
       [] outcome = "ctorFails" -> Rec_cleanup(opened)
       [] outcome = "startFails" -> Rec_cleanup(built("inactive"))
       [] OTHER -> built("recording")

\* ondataavailable of recorder r: keep the chunk when it is not empty.  A chunk is
\* named by the recorder that produced it and its place in the order of delivery.
Rec_ondataavailable(s, r, nonEmpty) ==
  IF nonEmpty
  THEN [s EXCEPT !.nChunks = @ + 1,
                 !.audioChunks = Append(@, <<r, s.nChunks + 1>>)]
  ELSE s

\* ======================= AudioVisualizer =======================

\* requestAnimationFrame(draw): the new id goes to animationRef; a request still
\* pending under an older id stays pending and is out of reach of the ref
requestAnimationFrame(s) ==
  [s EXCEPT !.rafStale = s.rafStale \/ s.rafPending, !.rafPending = TRUE,
            !.animationRef = TRUE]

\* cancelAnimationFrame(animationRef.current): cancels the request of that id
cancelAnimationFrame(s) == [s EXCEPT !.rafPending = FALSE]

\* draw() of an effect whose closure holds isRecording
draw(s, isRecording) ==
  IF ~isRecording
  THEN [s EXCEPT !.canvas = "line"]
  ELSE [requestAnimationFrame(s) EXCEPT !.canvas = "wave"]

\* mutant of Viz_cleanup: the pending animation frame is not cancelled
Viz_cleanup_NoCancel(s) ==
  [s EXCEPT !.source = "disconnected", !.disconnects = @ + 1]

\* the cleanup the effect returned
Viz_cleanup(s) ==
  LET s1 == IF s.animationRef THEN cancelAnimationFrame(s) ELSE s
  IN [s1 EXCEPT !.source = "disconnected", !.disconnects = @ + 1]

\* mutant of Viz_effect: an effect run while not recording stops the tracks of
\* the stream it was given
Viz_effect_StopsTracks(s) ==
  LET deps == <<s.stream, s.status = "recording">>
      s1 == [s EXCEPT !.vizDeps = deps]
  IN IF s.stream = None
     THEN s1
     ELSE draw([s1 EXCEPT !.leaked = @ + (IF s.source = "connected" THEN 1 ELSE 0),
                          !.source = "connected", !.disconnects = 0,
                          !.tracks[Val(s.stream)] = IF deps[2] THEN @ ELSE "stopped"],
               deps[2])

\* the effect body, run with the props of the render: without a stream it
\* returns at once and registers no cleanup
Viz_effect(s) ==
  LET deps == <<s.stream, s.status = "recording">>
      s1 == [s EXCEPT !.vizDeps = deps]
  IN IF s.stream = None
     THEN s1
     ELSE draw([s1 EXCEPT !.leaked = @ + (IF s.source = "connected" THEN 1 ELSE 0),
                          !.source = "connected", !.disconnects = 0],
               deps[2])

\* mutant of Viz_render: changed inputs run the effect again without the cleanup
\* of the previous run
Viz_render_NoCleanup(s) ==
  IF ~s.mounted
  THEN IF s.canvas = "gone"
       THEN s
       ELSE [(IF s.vizDeps[1] # None THEN Viz_cleanup(s) ELSE s)
               EXCEPT !.canvas = "gone", !.vizDeps = <<None, FALSE>>,
                      !.animationRef = FALSE]
  ELSE IF <<s.stream, s.status = "recording">> = s.vizDeps
       THEN s
       ELSE Viz_effect(s)

\* React commits the page's new state: on unmount the visualizer's last cleanup
\* runs; when [stream, isRecording] changed, the last cleanup and then the effect
Viz_render(s) ==
  IF ~s.mounted
  THEN IF s.canvas = "gone"
       THEN s
       ELSE [(IF s.vizDeps[1] # None THEN Viz_cleanup(s) ELSE s)
               EXCEPT !.canvas = "gone", !.vizDeps = <<None, FALSE>>,
                      !.animationRef = FALSE]
  ELSE IF <<s.stream, s.status = "recording">> = s.vizDeps
       THEN s
       ELSE Viz_effect(IF s.vizDeps[1] # None THEN Viz_cleanup(s) ELSE s)

\* a handler of the page ran: its state is committed and the page re-rendered
Commit(n) == Becomes(Viz_render(n))

\* ======================= Recording page =======================

\* mutant of tooShort: the minimum-duration check never rejects
tooShort_NoMinimum(ms) == ms < 0

\* duration < 5 (seconds), on the measured ms
tooShort(ms) == ms < MIN_DURATION * 1000

\* mutant of reachedMax: the auto-stop compares with the minimum duration
reachedMax_WrongLimit(ms) == ms >= MIN_DURATION * 1000

\* currentDuration >= MAX_DURATION (seconds), on the measured ms
reachedMax(ms) == ms >= MAX_DURATION * 1000

clearInterval(s, ref) ==
  IF ref # None THEN [s EXCEPT !.timers[Val(ref)] = None] ELSE s

\* stopRecording() of the page up to its first await; when the recorder rejects,
\* the catch block runs in the same step.
stopRecording(s, by) ==
  LET s1 == IF s.timerRef # None
            THEN [clearInterval(s, s.timerRef) EXCEPT !.timerRef = None]
            ELSE s
      s2 == setStatus(s1, "uploading")
      s3 == Rec_stopRecording(s2, by)
  IN IF Rec_stopRejects(s2)
     THEN setStatus(setError(s3, ERR_UPLOAD), "error")
     ELSE s3

\* the useEffect cleanup run on unmount
effectCleanup(s) ==
  LET s1 == clearInterval(s, s.timerRef)
  IN IF Rec_isRecording(s1) THEN Rec_stopRecording(s1, "cleanup") ELSE s1

\* navigate(to): the router leaves /record, which unmounts the page if mounted;
\* the React state of the unmounted page is gone
navigate(s, to, id) ==
  LET s1 == IF s.mounted
            THEN [effectCleanup(s) EXCEPT !.mounted = FALSE, !.unmountedIn = s.status,
                                          !.status = "unmounted", !.duration = 0,
                                          !.error = ERR_NONE, !.stream = None]
            ELSE s
  IN [s1 EXCEPT !.route = to, !.entryId = id]

\* cancelRecording()
cancelRecording(s) ==
  LET s1 == clearInterval(s, s.timerRef)
      s2 == IF Rec_isRecording(s1) THEN Rec_stopRecording(s1, "cleanup") ELSE s1
  IN navigate(s2, "dashboard", None)

\* mutant of afterStop: the form is submitted twice
afterStop_SubmitsTwice(s, r, blob, ms, by) ==
  LET s1 == setStream(s, None)
  IN IF tooShort(ms)
     THEN setStatus(setError(s1, ERR_SHORT), "error")
     ELSE [s1 EXCEPT !.upload[r] = [st |-> "sent", duration |-> ms, blob |-> blob,
                                    by |-> by, entry |-> 0],
                     !.uploadCalls = @ + 2]

\* stopRecording() of the page after recorder.stopRecording() resolved
afterStop(s, r, blob, ms, by) ==
  LET s1 == setStream(s, None)
  IN IF tooShort(ms)
     THEN setStatus(setError(s1, ERR_SHORT), "error")
     ELSE [s1 EXCEPT !.upload[r] = [st |-> "sent", duration |-> ms, blob |-> blob,
                                    by |-> by, entry |-> 0],
                     !.uploadCalls = @ + 1]

\* mutant of uploadResolved: the identifier is read from a field the response
\* does not have, so none is carried into the route
uploadResolved_LosesId(s, id) == navigate(s, "process", None)

\* the upload promise resolved with response.data.entry_id = id
uploadResolved(s, id) == navigate(s, "process", Some(id))

\* mutant of uploadRejected: the catch block only logs the error
uploadRejected_Swallowed(s) == s

\* the upload promise rejected
uploadRejected(s) == setStatus(setError(s, ERR_UPLOAD), "error")

\* mutant of retry: the duration shown is not reset
retry_KeepsDuration(s) == setError(setStatus(s, "idle"), ERR_NONE)

\* onClick of Try Again
retry(s) == setError(setDuration(setStatus(s, "idle"), 0), ERR_NONE)

\* startRecording() of the page after recorder.startRecording() settled
afterStart(s, i, ok) ==
  IF ok
  THEN [setStream(s, Rec_getStream(s)) EXCEPT !.timerRef = Some(i),
                                             !.timers[i] = Some(TICK_MS)]
  ELSE setStatus(setError(s, ERR_MIC), "error")

\* the setInterval callback of timer i
tick(s, i) ==
  LET cur == Rec_getCurrentDuration(s)
      s1 == setDuration([s EXCEPT !.timers[i] = Some(TICK_MS)], cur \div 1000)
  IN IF reachedMax(cur) THEN stopRecording(s1, "tick") ELSE s1

\* mutant of stopEventFires: onstop cleans up but never resolves the promise
stopEventFires_NoResolve(s, r, lastNonEmpty) ==
  LET s1 == Rec_ondataavailable(s, r, lastNonEmpty)
  IN [Rec_cleanup(s1) EXCEPT !.stopEvent[r] = FALSE]

\* the MediaRecorder stop event of recorder r: a last dataavailable, then onstop
stopEventFires(s, r, lastNonEmpty) ==
  LET s1 == Rec_ondataavailable(s, r, lastNonEmpty)
      blob == s1.audioChunks
      ms == IF s1.sinceStart # None THEN Val(s1.sinceStart) ELSE 0
      s2 == [Rec_cleanup(s1) EXCEPT !.stopEvent[r] = FALSE, !.settled = "resolved"]
  IN IF s.onstop[r] \in {"user", "tick"}
     THEN afterStop(s2, r, blob, ms, s.onstop[r])
     ELSE s2

\* ======================= actions =======================

\* click on Start Recording (rendered while status = idle)
Start ==
  /\ mounted /\ status = "idle" /\ nStarts < MaxStarts
  /\ LET i == nStarts + 1
     IN Commit([setStatus(setError(St, ERR_NONE), "recording")
                   EXCEPT !.nStarts = i, !.acq[i] = "pending"])

\* getUserMedia of start i settles and startRecording runs to its end
AcqDone ==
  \E i \in Ids, outcome \in {"ok", "denied", "ctorFails", "startFails"} :
    /\ acq[i] = "pending"
    /\ Commit(afterStart([Rec_startRecording(St, i, outcome)
                             EXCEPT !.acq[i] = IF outcome = "ok" THEN "done" ELSE "failed"],
                          i, outcome = "ok"))

\* click on Stop Recording (rendered while status = recording)
Stop ==
  /\ mounted /\ status = "recording"
  /\ Commit([stopRecording(St, "user") EXCEPT !.userActed = TRUE])

\* click on Try Again (rendered while status = error)
Retry ==
  /\ mounted /\ status = "error"
  /\ Commit([retry(St) EXCEPT !.userActed = TRUE])

\* click on Cancel (rendered while status is idle or error)
Cancel ==
  /\ mounted /\ status \in {"idle", "error"}
  /\ Commit([cancelRecording(St) EXCEPT !.userActed = TRUE])

\* a navigation link of the layout is followed: the page unmounts
NavAway ==
  /\ mounted
  /\ Commit([navigate(St, "dashboard", None) EXCEPT !.userActed = TRUE])

\* the duration timer fires
Tick ==
  \E i \in Ids :
    /\ timers[i] # None /\ Val(timers[i]) <= 0
    /\ Commit(tick(St, i))

\* a timeslice of recorder r is delivered
Chunk ==
  \E r \in Ids, nonEmpty \in BOOLEAN :
    /\ mrState[r] = "recording" /\ tracks[r] = "live"
    /\ nChunks < MaxChunks
    /\ Commit(Rec_ondataavailable(St, r, nonEmpty))

\* the queued stop event of recorder r is dispatched
StopEvent ==
  \E r \in Ids, lastNonEmpty \in BOOLEAN :
    /\ stopEvent[r]
    /\ lastNonEmpty => nChunks < MaxChunks
    /\ Commit(stopEventFires(St, r, lastNonEmpty))

\* the backend answers upload r
UploadRespond ==
  \E r \in Ids :
    /\ upload[r].st = "sent"
    /\ \/ \E id \in EntryIds : upload' = [upload EXCEPT ![r].st = "ok", ![r].entry = id]
       \/ upload' = [upload EXCEPT ![r].st = "failed"]
    /\ UNCHANGED <<status, duration, error, stream, timerRef, mounted, route, entryId,
                   mediaRecorder, audioChunks, recStream, sinceStart,
                   supported, mimeType,
                   nStarts, acq, mrState, onstop, stopEvent, nChunks, tracks, timers,
                   releases, uploadCalls, settled, userActed, unmountedIn,
                   vizDeps, source, rafPending, rafStale, animationRef, canvas,
                   disconnects, leaked>>

\* the page's stopRecording resumes after await entriesAPI.uploadAudio
UploadDone ==
  \E r \in Ids :
    /\ upload[r].st \in {"ok", "failed"}
    /\ LET s == [St EXCEPT !.upload[r] = [NoUpload EXCEPT !.st = "done"]]
       IN Commit(IF upload[r].st = "ok" THEN uploadResolved(s, upload[r].entry)
                  ELSE uploadRejected(s))

\* Time passes: the clock moves on to the next sampled reading.  Time is
\* observable only through this.startTime and the timers; at least one tick
\* interval passes, so every armed timer becomes due.  Nothing bounds how late a
\* due callback runs.
Advance ==
  /\ sinceStart # None \/ \E i \in Ids : timers[i] # None
  /\ \/ /\ sinceStart = None
        /\ UNCHANGED sinceStart
     \/ /\ sinceStart # None
        /\ \E t \in TimePoints :
             /\ t > Val(sinceStart)
             /\ \A u \in TimePoints : u > Val(sinceStart) => t <= u
             /\ sinceStart' = Some(t)
  /\ timers' = [i \in Ids |-> IF timers[i] = None THEN None ELSE Some(0)]
  /\ UNCHANGED <<status, duration, error, stream, timerRef, mounted, route, entryId,
                 mediaRecorder, audioChunks, recStream, supported, mimeType,
                 nStarts, acq, mrState, onstop, stopEvent, nChunks, tracks, upload,
                 releases, uploadCalls, settled, userActed, unmountedIn,
                   vizDeps, source, rafPending, rafStale, animationRef, canvas,
                   disconnects, leaked>>

\* the browser runs a pending animation frame callback: draw() of a closure
\* that requested it, which is one whose isRecording is true
Frame ==
  \E latest \in BOOLEAN :
    /\ IF latest THEN rafPending ELSE rafStale
    /\ Becomes(draw(IF latest THEN [St EXCEPT !.rafPending = FALSE]
                               ELSE [St EXCEPT !.rafStale = FALSE], TRUE))

Next ==
  \/ Start \/ AcqDone \/ Stop \/ Retry \/ Cancel \/ NavAway
  \/ Tick \/ Chunk \/ StopEvent \/ UploadRespond \/ UploadDone \/ Advance \/ Frame

Spec == Init /\ [][Next]_vars

\* ---- getSupportedMimeType on every runtime: the set of supported encodings is
\* any subset of the known ones, and the only step is the choice of the mimeType
\* in startRecording
InitMime ==
  /\ InitRec
  /\ supported \in SUBSET KnownTypes

SelectMime ==
  /\ mimeType = None
  /\ Becomes([St EXCEPT !.mimeType = Some(getSupportedMimeType(supported, 1))])

NextMime == SelectMime

SpecMime == InitMime /\ [][NextMime]_vars

\* ---- the recording flow with the callbacks the page waits for in uploading:
\* the backend answers a request that was sent (weak fairness of UploadRespond),
\* the browser dispatches every queued stop event, and the event loop runs the
\* continuation of every answered request.  The last two are stated on the
\* queues themselves: again and again no stop event of a recorder is queued,
\* and no answered request waits for its continuation.
SpecLive ==
  /\ Spec
  /\ WF_vars(UploadRespond)
  /\ \A r \in Ids : []<>(~stopEvent[r])
  /\ \A r \in Ids : []<>(upload[r].st \notin {"ok", "failed"})

\* ======================= claims =======================

TimerArmed == \E i \in Ids : timers[i] # None
LiveStream == \E i \in Ids : tracks[i] = "live"
UploadInFlight(r) == upload[r].st \in {"sent", "ok", "failed"}
\* what onstop of the recorder measures when it runs in the current state
Measured == IF sinceStart # None THEN Val(sinceStart) ELSE 0

\* C1: a duration timer is armed only while the page is mounted with
\* status = recording (so elapsedSeconds is only advanced while Recording).
C1_TimerOnlyWhileRecording ==
  TimerArmed => (mounted /\ status = "recording")

C3_TooShortNoUpload ==
  /\ [](\A r \in Ids : UploadInFlight(r) => upload[r].duration >= MIN_DURATION * 1000)
  /\ [][\A r \in Ids :
          (/\ stopEvent[r] /\ ~stopEvent'[r]
           /\ onstop[r] \in {"user", "tick"}
           /\ Measured < MIN_DURATION * 1000)
          => /\ uploadCalls' = uploadCalls
             /\ upload' = upload
             /\ mounted => (status' = "error" /\ error' = ERR_SHORT)]_vars

C3_Witness ==
  /\ status = "error" /\ error = ERR_SHORT /\ uploadCalls = 0
  /\ \E r \in Ids : mrState[r] = "inactive" /\ releases[r] = 1

\* C4: when device acquisition fails, the status was never recording between
\* the start request and the failure: at the failure it is not recording.
C4_FailedStartNeverRecording ==
  [][\A i \in Ids :
       (acq[i] = "pending" /\ acq'[i] = "failed") => status # "recording"]_vars

\* C5: when the page resumes with an upload response that carries an entry
\* identifier, the session is handed off to the processing route of exactly
\* that identifier.
C5_SuccessCarriesId ==
  [][\A r \in Ids :
       (upload[r].st = "ok" /\ upload'[r].st = "done")
       => (route' = "process" /\ entryId' = Some(upload[r].entry))]_vars

C5_Witness ==
  /\ route = "process" /\ entryId = Some(42)
  /\ \E r \in Ids : upload[r].st = "done"

\* C6: after the page was cancelled or unmounted while its status was
\* recording, no duration timer is armed, every stream still live has its stop
\* queued, and no stream is released twice.
C6_CancelWhileRecording ==
  (~mounted /\ unmountedIn = "recording") =>
    /\ ~TimerArmed
    /\ \A i \in Ids : tracks[i] = "live" => stopEvent[i]
    /\ \A i \in Ids : releases[i] <= 1

\* C7: once the page is cancelled or unmounted and every pending callback
\* (acquisition, stop event, upload) has completed, no stream is live and no
\* timer is armed.
C7_CancelLeavesNothing ==
  (/\ ~mounted
   /\ \A i \in Ids : acq[i] # "pending" /\ ~stopEvent[i] /\ ~UploadInFlight(i))
  => (~LiveStream /\ ~TimerArmed)

\* C8: no stream is released twice, and once the session has errored, or has
\* stopped (uploading with no stop event outstanding), no acquired stream is
\* still live.
C8_StreamReleasedOnce ==
  /\ \A i \in Ids : releases[i] <= 1
  /\ (mounted /\ status = "error") => ~LiveStream
  /\ (mounted /\ status = "uploading" /\ \A r \in Ids : ~stopEvent[r]) => ~LiveStream

\* C9: at most one acquisition is pending or capture is active at any time.
C9_OneCapture ==
  Cardinality({i \in Ids : \/ acq[i] = "pending"
                           \/ mrState[i] = "recording" /\ tracks[i] = "live"}) <= 1

\* C10: once a call of AudioRecorder.stopRecording has settled (resolved or
\* rejected) and no later acquisition has opened a stream, the recorder holds
\* no stream and no chunks, and no stream is live.
C10_StopAlwaysReleases ==
  settled # "none" => (recStream = None /\ audioChunks = <<>> /\ ~LiveStream)

\* the page's stopRecording is called from the Stop button or from a tick: the
\* status leaves recording in a step in which no acquisition settles, no stop
\* event is dispatched and no upload answer is handled
StopCalled ==
  /\ status = "recording" /\ status' \in {"uploading", "error"}
  /\ acq' = acq /\ upload' = upload
  /\ \A r \in Ids : stopEvent[r] => stopEvent'[r]

C13_BlobIsOwnChunks ==
  \A r \in Ids :
    UploadInFlight(r) =>
      LET blob == upload[r].blob
      IN /\ \A k \in 1..Len(blob) : blob[k][1] = r
         /\ \A j, k \in 1..Len(blob) : j < k => blob[j][2] < blob[k][2]

\* C14: in every reachable state, running cleanup() twice in succession gives
\* the state a single run gives; the second run releases no tracks, and a run
\* releases the tracks of at most the one stream the recorder holds.
C14_CleanupIdempotent ==
  LET once == Rec_cleanup(St)
      twice == Rec_cleanup(once)
  IN /\ twice = once
     /\ \A i \in Ids :
          /\ twice.releases[i] = once.releases[i]
          /\ once.releases[i] = releases[i] + (IF recStream = Some(i) THEN 1 ELSE 0)
          /\ once.tracks[i] # "live" \/ recStream # Some(i)

\* cleanup() has something to release and to forget
C14_Witness ==
  /\ recStream # None /\ tracks[Val(recStream)] = "live"
  /\ mediaRecorder # None /\ audioChunks # <<>> /\ sinceStart # None
  /\ Rec_cleanup(Rec_cleanup(St)).releases[Val(recStream)] = 1

\* C15: while the page stays mounted, every change of status is idle to
\* recording, recording to uploading, uploading to error, idle to error or
\* error to idle (the hand-off to the processing route unmounts the page), and
\* status leaves error only for idle.
C15_StatusTransitions ==
  [][(mounted' /\ status' # status)
     => <<status, status'>> \in {<<"idle", "recording">>, <<"recording", "uploading">>,
                                 <<"uploading", "error">>, <<"idle", "error">>,
                                 <<"error", "idle">>}]_vars

\* C16: when the page resumes with a rejected upload while it is mounted, its
\* status goes from uploading to error with the generic upload message; and
\* whenever the mounted page is in error, Try Again is enabled.
C16_UploadFailure ==
  /\ []((mounted /\ status = "error") => ENABLED Retry)
  /\ [][\A r \in Ids :
          (upload[r].st = "failed" /\ upload'[r].st = "done" /\ mounted)
          => /\ status = "uploading"
             /\ mounted' /\ status' = "error" /\ error' = ERR_UPLOAD]_vars

\* a step in which startRecording fails, AudioRecorder.stopRecording rejects, or
\* the page resumes with a rejected upload
FailureStep ==
  \/ \E i \in Ids : acq[i] = "pending" /\ acq'[i] = "failed"
  \/ settled' = "rejected" /\ settled # "rejected"
  \/ StopCalled /\ ~Rec_isRecording(St)
  \/ \E r \in Ids : upload[r].st = "failed" /\ upload'[r].st = "done"

\* C17: every failure of startRecording, of stopRecording or of the upload that
\* reaches the mounted page leaves it in error with a non-empty message, and
\* the stopRecording issued by cancel or by the unmount cleanup never rejects.
C17_FailuresEndInError ==
  [][/\ (mounted' /\ FailureStep) => (status' = "error" /\ error' # ERR_NONE)
     /\ (mounted /\ ~mounted') => settled' = settled]_vars

C17_Witness ==
  /\ mounted /\ status = "error" /\ error = ERR_UPLOAD
  /\ \E r \in Ids : upload[r].st = "done"
  /\ route = "record" /\ uploadCalls = 1

\* a click on Try Again: the only step of a mounted page from error to idle
RetryStep == mounted /\ status = "error" /\ mounted' /\ status' = "idle"

\* C18: Try Again, taken from error, leaves the page in idle with duration 0
\* and no error message, and changes nothing of the recorder.
C18_RetryResets ==
  [][RetryStep => /\ duration' = 0 /\ error' = ERR_NONE
                  /\ stream' = stream /\ timerRef' = timerRef
                  /\ mediaRecorder' = mediaRecorder /\ recStream' = recStream]_vars

\* after a recording that ran past the minimum and whose upload failed, Try
\* Again was clicked
C18_Witness ==
  /\ mounted /\ status = "idle" /\ duration = 0 /\ error = ERR_NONE
  /\ userActed /\ uploadCalls = 1 /\ \E r \in Ids : upload[r].st = "done"

SameCapture(n) ==
  /\ n.tracks = tracks /\ n.releases = releases /\ n.recStream = recStream
  /\ n.mediaRecorder = mediaRecorder /\ n.mrState = mrState
  /\ n.audioChunks = audioChunks

\* C20: in every reachable state each operation of the visualizer (effect,
\* cleanup, draw, the commit that runs them) leaves the tracks of every stream
\* and the recorder's fields as they are; in every step a track stops only
\* with a release by AudioRecorder.cleanup being counted, and the recorder's
\* stream handle changes only when an acquisition settles or in such a release.
C20_RendererLeavesStream ==
  /\ [](/\ SameCapture(Viz_effect(St)) /\ SameCapture(Viz_cleanup(St))
        /\ SameCapture(draw(St, TRUE)) /\ SameCapture(draw(St, FALSE))
        /\ SameCapture(Viz_render(St)))
  /\ [][\A i \in Ids :
          (tracks'[i] # tracks[i])
          => \/ acq[i] = "pending" /\ acq'[i] # "pending"
             \/ tracks'[i] = "stopped" /\ releases'[i] = releases[i] + 1]_vars
  /\ [][(recStream' # recStream)
        => \/ \E i \in Ids : acq[i] = "pending" /\ acq'[i] # "pending"
           \/ /\ recStream' = None
              /\ releases'[Val(recStream)] = releases[Val(recStream)] + 1]_vars

\* the visualizer is attached to the live stream the recorder holds and redraws
C20_Witness ==
  /\ mounted /\ stream # None /\ recStream = stream
  /\ tracks[Val(stream)] = "live" /\ releases[Val(stream)] = 0
  /\ source = "connected" /\ rafPending /\ canvas = "wave"

\* C21: while the mounted visualizer has no stream or is not recording, its
\* canvas shows the idle line and no animation frame is pending.
C21_IdleLine ==
  (mounted /\ (stream = None \/ status # "recording"))
  => (canvas = "line" /\ ~rafPending /\ ~rafStale)

\* C22: the mimeType startRecording chooses is the first entry of the
\* preference list that the runtime supports, and the default when the
\* runtime supports none of the list.
C22_MimeSelection ==
  mimeType # None =>
    LET m == Val(mimeType)
        ranks == {k \in 1..Len(MIME_TYPES) : MIME_TYPES[k] \in supported}
    IN IF ranks = {}
       THEN m = MIME_DEFAULT
       ELSE \E k \in ranks : /\ m = MIME_TYPES[k]
                              /\ \A j \in ranks : k <= j

\* the first two entries are unsupported, the last two are: the third is chosen
C22_Witness ==
  /\ mimeType = Some("audio/ogg;codecs=opus")
  /\ "audio/mp4" \in supported /\ "audio/wav" \in supported
  /\ "audio/webm" \notin supported

\* no entry of the list is supported: the default is chosen
C22_WitnessDefault ==
  /\ mimeType = Some(MIME_DEFAULT)
  /\ supported = {"audio/wav"}

\* C23 (amended): getCurrentDuration returns 0 whenever the recorder holds no
\* MediaRecorder (before a start, after a failed start, after cleanup) and the
\* time elapsed since the start whenever it holds one, which includes the time
\* between stop() and the stop event; a tick that reads it below the maximum
\* changes nothing of the recorder and shows the whole seconds of that value.
C23_CurrentDuration ==
  /\ [](/\ mediaRecorder = None => Rec_getCurrentDuration(St) = 0
        /\ mediaRecorder # None =>
             (sinceStart # None /\ Rec_getCurrentDuration(St) = Val(sinceStart)))
  /\ [][(duration' # duration /\ status' = status /\ ~reachedMax(Measured))
        => /\ duration' = Measured \div 1000
           /\ mediaRecorder' = mediaRecorder /\ sinceStart' = sinceStart
           /\ recStream' = recStream /\ audioChunks' = audioChunks
           /\ mrState' = mrState /\ tracks' = tracks]_vars

\* C23 as stated: getCurrentDuration returns 0 whenever the recorder is not
\* recording.
C23_AsStated ==
  ~Rec_isRecording(St) => Rec_getCurrentDuration(St) = 0

\* stop() was called, the stop event is still queued, and getCurrentDuration
\* returns the elapsed time; a tick had shown 5 s or more
C23_Witness ==
  /\ mediaRecorder # None /\ mrState[Val(mediaRecorder)] = "inactive"
  /\ stopEvent[Val(mediaRecorder)]
  /\ Rec_getCurrentDuration(St) >= MIN_DURATION * 1000 /\ duration >= MIN_DURATION

\* C24: a stop request (the Stop button, or a tick at the maximum) made while
\* the recorder is not recording raises no error and changes neither the
\* status and message of the page nor the recorder.
C24_StopAgainIsNoOp ==
  [][((Stop \/ (Tick /\ reachedMax(Measured))) /\ ~Rec_isRecording(St))
     => /\ settled' # "rejected"
        /\ status' = status /\ error' = error
        /\ mediaRecorder' = mediaRecorder /\ recStream' = recStream
        /\ audioChunks' = audioChunks /\ sinceStart' = sinceStart]_vars

\* C25: while the mounted page is in error, no step invokes startRecording or
\* the upload, and an upload that was answered is never sent again.
C25_NoAutomaticRetry ==
  [][/\ (mounted /\ status = "error")
          => (uploadCalls' = uploadCalls /\ nStarts' = nStarts)
     /\ \A r \in Ids : upload[r].st = "done" => upload'[r].st = "done"]_vars

\* C26: while the mounted page is in idle or in error, the recorder is not
\* recording and holds no stream.
C26_IdleErrorNoCapture ==
  (mounted /\ status \in {"idle", "error"})
  => (~Rec_isRecording(St) /\ Rec_getStream(St) = None)

\* C27: once the page is unmounted (cancelled or left), no step invokes the
\* upload and no step navigates to the processing route.
C27_NothingAfterUnmount ==
  [][~mounted => /\ uploadCalls' = uploadCalls
                 /\ route' = "process" => route = "process"]_vars

\* C28: the upload is invoked at most once for each recorder that was started:
\* the number of invocations is the number of recordings with an upload, each
\* of them a successful start, an invocation is for one recording at a time,
\* and a recording whose upload was answered is never uploaded again.
C28_OneUploadPerStart ==
  /\ [](/\ uploadCalls = Cardinality({r \in Ids : upload[r].st # "none"})
        /\ \A r \in Ids : upload[r].st # "none" => acq[r] = "done")
  /\ [][/\ uploadCalls' \in {uploadCalls, uploadCalls + 1}
        /\ \A r \in Ids : upload'[r].st = "sent" => upload[r].st \in {"none", "sent"}]_vars

\* a second stop request for the recording was rejected (the page shows the
\* upload message) while the one upload of the first request is in flight
C28_Witness ==
  /\ uploadCalls = 1 /\ mounted /\ status = "error" /\ error = ERR_UPLOAD
  /\ \E r \in Ids : upload[r].st = "sent" /\ upload[r].by = "user"

\* C29: whenever the mounted page is in uploading, it later is in error, or
\* has handed off to the processing route, or has been left by the user.
C29_UploadingEnds ==
  (mounted /\ status = "uploading")
    ~> (status = "error" \/ route = "process" \/ ~mounted)

\* the statement without the user's exit: every uploading page later shows the
\* error or has handed off to the processing route
C29_AsStated ==
  (mounted /\ status = "uploading") ~> (status = "error" \/ route = "process")

\* the page waits in uploading for the answer to the request it sent
C29_Witness ==
  /\ mounted /\ status = "uploading" /\ uploadCalls = 1
  /\ \E r \in Ids : upload[r].st = "sent" /\ ~stopEvent[r]

\* C30: at any time at most one animation-frame request of the visualizer is
\* pending (none under an id the ref no longer holds), a pending request
\* belongs to the connected source, and no source that was connected has been
\* left connected when the next one was created.
C30_OneLoopOneSource ==
  /\ ~rafStale
  /\ leaked = 0
  /\ rafPending => (source = "connected" /\ animationRef /\ vizDeps[2])
  /\ source = "connected" => vizDeps[1] # None

\* the loop of the second recording runs on its own source after the inputs of
\* the first recording came and went
C30_Witness ==
  /\ nStarts = 2 /\ mounted /\ status = "recording"
  /\ rafPending /\ source = "connected" /\ canvas = "wave"
  /\ vizDeps = <<Some(2), TRUE>>

====
